---- MODULE Spec2Model ----
(***************************************************************************)
(* A model of httpregistry: the Registry of (Request, responses) matches,  *)
(* the matching predicate doesRegisteredMatchMatchIncomingRequest, the     *)
(* handler returned by Registry.GetServer and                              *)
(* Registry.CheckAllResponsesAreConsumed.                                  *)
(*                                                                         *)
(* Conventions.  A Go string that the code inspects character by character *)
(* (a URL, a regular expression) is a sequence of one-character strings.   *)
(* A name is a pair <<text, n>>: <<s, 0>> is the string s and              *)
(* <<base, k>> with k > 0 is fmt.Sprintf("%s #%d", base, k).  A Go map is  *)
(* a set of <<key, value>> pairs with distinct keys.  A []byte is a record *)
(* [nil, bytes] because reflect.DeepEqual tells a nil slice from an empty  *)
(* one.                                                                    *)
(***************************************************************************)
EXTENDS Integers, Sequences, FiniteSets, TLC

VARIABLES
  matches,                    \* Registry.matches
  misses,                     \* Registry.misses
  t,                          \* Registry.t, a MockTestingT
  nameRequestCounter,         \* the counter closed over by nameRequestFunction
  nameResponseCounter,        \* the counter closed over by nameResponseFunction
  nameCustomResponseCounter,  \* the counter closed over by nameCustomResponseFunction
  last,                       \* what the caller of the last operation observed
  nRequests,                  \* number of requests the server has received
  nChecks,                    \* number of calls of CheckAllResponsesAreConsumed
  registered,                 \* history: the responses each match was registered with
  served,                     \* history: the responses each match has served, in order
  received,                   \* history: the requests each match has served, as they arrived
  handlers,                   \* the handler goroutines (concurrent use)
  probe,                      \* an input of the matching predicate and its result
  objects,                    \* the Request and Response values of the test, and their header maps
  adders,                     \* the goroutines that call an Add method (concurrent use)
  other                       \* a second Registry: its name counters and the names it gave

vars == <<matches, misses, t, nameRequestCounter, nameResponseCounter,
          nameCustomResponseCounter, last, nRequests, nChecks, registered, served, received,
          handlers, probe, objects, adders, other>>

-----------------------------------------------------------------------------
\* Bounds of the model

\* at most this many matches are registered
MaxMatches == 2
\* the server receives at most this many requests
MaxRequests == 4
\* CheckAllResponsesAreConsumed is called at most this many times
MaxChecks == 1

\* the number of requests the server handles at the same time
MaxConcurrent == 2

-----------------------------------------------------------------------------
\* Strings, names, byte slices

Str(s) == <<s, 0>>

EmptyName == Str("")

NilBytes == [nil |-> TRUE, bytes |-> <<>>]

Bytes(b) == [nil |-> FALSE, bytes |-> b]

\* len(b) of a []byte
LenBytes(b) == Len(b.bytes)

\* reflect.DeepEqual on two []byte
DeepEqualBytes(a, b) == a.nil = b.nil /\ a.bytes = b.bytes

Min(S) == CHOOSE x \in S : \A y \in S : x <= y

-----------------------------------------------------------------------------
\* regexp: the fragment made of literal characters, "." and a postfix "+"

RECURSIVE MustCompile(_)
\* regexp.MustCompile: the sequence of atoms of the expression
MustCompile(expr) ==
  IF expr = <<>> THEN <<>>
  ELSE IF Len(expr) >= 2 /\ expr[2] = "+"
       THEN <<[ch |-> expr[1], plus |-> TRUE]>> \o MustCompile(SubSeq(expr, 3, Len(expr)))
       ELSE <<[ch |-> expr[1], plus |-> FALSE]>> \o MustCompile(SubSeq(expr, 2, Len(expr)))

AtomMatches(a, c) == a.ch = "." \/ a.ch = c

RECURSIVE MatchHere(_, _, _, _)
\* does re[i..] match a prefix of s[j..]
MatchHere(re, i, s, j) ==
  IF i > Len(re) THEN TRUE
  ELSE IF re[i].plus
       THEN \E k \in 1..(Len(s) - j + 1) :
              /\ \A m \in j..(j + k - 1) : AtomMatches(re[i], s[m])
              /\ MatchHere(re, i + 1, s, j + k)
       ELSE /\ j <= Len(s)
            /\ AtomMatches(re[i], s[j])
            /\ MatchHere(re, i + 1, s, j + 1)

\* Regexp.MatchString: the expression matches somewhere in s (it is not anchored)
MatchString(re, s) == \E j \in 1..(Len(s) + 1) : MatchHere(re, 1, s, j)

-----------------------------------------------------------------------------
\* Request: the pattern registered with the Registry

newRequestWithName(name) ==
  [name |-> name,
   url |-> <<>>,
   urlAsRegex |-> MustCompile(<<".", "+">>),
   method |-> "",
   headers |-> {},
   body |-> Bytes(<<>>)]

NewRequest == newRequestWithName(EmptyName)

DefaultRequest == newRequestWithName(Str("httpregistry.DefaultRequest"))

WithName(r, name) == [r EXCEPT !.name = name]

WithURL(r, URL) == [r EXCEPT !.url = URL, !.urlAsRegex = MustCompile(URL)]

WithMethod(r, method) == [r EXCEPT !.method = method]

WithHeader(r, header, value) ==
  [r EXCEPT !.headers = {p \in @ : p[1] # header} \cup {<<header, value>>}]

WithHeaders(r, headers) ==
  [r EXCEPT !.headers = {p \in @ : \A q \in headers : q[1] # p[1]} \cup headers]

WithBody(r, body) == [r EXCEPT !.body = body]

\* Request.Equal: every field but the name
Equal(r, r2) ==
  /\ r.url = r2.url
  /\ r.method = r2.method
  /\ r.headers = r2.headers
  /\ DeepEqualBytes(r.body, r2.body)
  /\ r.urlAsRegex = r2.urlAsRegex

\* Request.String
RequestString(r) == r.name

-----------------------------------------------------------------------------
\* The incoming *http.Request: body is what is still unread of r.Body

HTTPRequest(method, url, header, body) ==
  [method |-> method, url |-> url, header |-> header, body |-> body]

\* http.Header.Get
HeaderGet(header, key) ==
  IF \E p \in header : p[1] = key
  THEN (CHOOSE p \in header : p[1] = key)[2]
  ELSE ""

\* io.ReadAll(r.Body): the bytes read (never a nil slice) and the drained request
ReadAll(r) == [buf |-> Bytes(r.body), r |-> [r EXCEPT !.body = <<>>]]

-----------------------------------------------------------------------------
\* misses

pathDoesNotMatch == "the path does not match"

methodDoesNotMatch == "the method does not match"

headerDoesNotMatch == "the header does not match"

outOfResponses == "the route matches but there was no response available"

newMiss(match, why) == [Request |-> match.request, Why |-> why]

\* miss.String: "<request> missed because <why>"
MissString(m) == <<RequestString(m.Request), "missed because", m.Why>>

-----------------------------------------------------------------------------
\* doesRegisteredMatchMatchIncomingRequest

\* the headers of the pattern that the request does not carry with that value
FailingHeaders(expectedHeaders, r) ==
  {p \in expectedHeaders : HeaderGet(r.header, p[1]) = "" \/ HeaderGet(r.header, p[1]) # p[2]}

\* the last block of the function: the required headers
MatchHeaders(registeredMatch, r, missesSoFar) ==
  LET expectedHeaders == registeredMatch.request.headers
      headersMisses == <<>>
      n == Cardinality(FailingHeaders(expectedHeaders, r))
      withHeaders == missesSoFar \o [i \in 1..n |-> newMiss(registeredMatch, headerDoesNotMatch)]
  IN IF Cardinality(expectedHeaders) > 0
     THEN IF Len(headersMisses) = 0
          THEN [doesMatch |-> TRUE, misses |-> <<>>, r |-> r]
          ELSE [doesMatch |-> FALSE, misses |-> withHeaders \o headersMisses, r |-> r]
     ELSE [doesMatch |-> FALSE, misses |-> missesSoFar, r |-> r]

\* the block before it: the required body, read from r.Body
MatchBody(registeredMatch, r, missesSoFar) ==
  LET expectedBody == registeredMatch.request.body
      read == ReadAll(r)
  IN IF LenBytes(expectedBody) > 0
     THEN IF DeepEqualBytes(expectedBody, read.buf)
          THEN [doesMatch |-> TRUE, misses |-> <<>>, r |-> read.r]
          ELSE MatchHeaders(registeredMatch, read.r, missesSoFar)
     ELSE MatchHeaders(registeredMatch, r, missesSoFar)

\* the block before it: the method
MatchMethod(registeredMatch, r, missesSoFar) ==
  LET expectedMethod == registeredMatch.request.method
  IN IF expectedMethod # ""
     THEN IF expectedMethod = r.method
          THEN [doesMatch |-> TRUE, misses |-> <<>>, r |-> r]
          ELSE MatchBody(registeredMatch, r,
                         missesSoFar \o <<newMiss(registeredMatch, methodDoesNotMatch)>>)
     ELSE MatchBody(registeredMatch, r, missesSoFar)

\* the first block: the URL
MatchURL(registeredMatch, r, missesSoFar) ==
  LET expectedURL == registeredMatch.request.url
      expectedURLAsRegex == registeredMatch.request.urlAsRegex
  IN IF expectedURL # <<>>
     THEN IF MatchString(expectedURLAsRegex, r.url)
          THEN [doesMatch |-> TRUE, misses |-> <<>>, r |-> r]
          ELSE MatchMethod(registeredMatch, r,
                           missesSoFar \o <<newMiss(registeredMatch, pathDoesNotMatch)>>)
     ELSE MatchMethod(registeredMatch, r, missesSoFar)

\* the result, its misses, and the request as the call leaves it
doesRegisteredMatchMatchIncomingRequest(registeredMatch, r) ==
  IF Equal(registeredMatch.request, NewRequest)
  THEN [doesMatch |-> TRUE, misses |-> <<>>, r |-> r]
  ELSE MatchURL(registeredMatch, r, <<>>)

-----------------------------------------------------------------------------
\* Response and CustomResponse, and the http.ResponseWriter they are served to

newResponseWithName(name) ==
  [kind |-> "Response", name |-> name, statusCode |-> 200, headers |-> {}, body |-> Bytes(<<>>)]

NewResponse == newResponseWithName(EmptyName)

OkResponse == [newResponseWithName(Str("httpregistry.OkResponse")) EXCEPT !.statusCode = 200]

\* a CustomResponse whose function writes the body it reads from the request
NewCustomResponse ==
  [kind |-> "CustomResponse", name |-> EmptyName, statusCode |-> 0, headers |-> {}, body |-> NilBytes]

WithStatus(res, statusCode) == [res EXCEPT !.statusCode = statusCode]

ResponseWithBody(res, body) == [res EXCEPT !.body = body]

ResponseWithName(res, name) == [res EXCEPT !.name = name]

\* Response.WithHeader: the response returned
ResponseWithHeader(res, header, value) ==
  [res EXCEPT !.headers = {p \in @ : p[1] # header} \cup {<<header, value>>}]

\* Response.String, CustomResponse.String
ResponseString(res) == res.name

\* a fresh http.ResponseWriter: header is the map handlers edit, sent is what the
\* client gets once WriteHeader has committed status and headers
NewResponseWriter ==
  [header |-> {}, wroteHeader |-> FALSE, status |-> 0, sent |-> {}, body |-> <<>>, calls |-> <<>>]

\* w.Header().Add / w.Header().Set with one value per key
HeaderSet(w, key, value) ==
  [w EXCEPT !.header = {p \in @ : p[1] # key} \cup {<<key, value>>}]

\* w.WriteHeader
WriteHeader(w, statusCode) ==
  IF w.wroteHeader THEN w
  ELSE [w EXCEPT !.wroteHeader = TRUE, !.status = statusCode, !.sent = w.header]

\* w.Write
Write(w, b) ==
  LET w1 == WriteHeader(w, 200)
  IN [w1 EXCEPT !.body = @ \o b]

RECURSIVE AddHeaders(_, _)
AddHeaders(w, headers) ==
  IF headers = {} THEN w
  ELSE LET p == CHOOSE q \in headers : TRUE
       IN AddHeaders(HeaderSet(w, p[1], p[2]), headers \ {p})

\* serveResponse writing the status before it adds the headers
serveResponse_StatusFirst(res, w, r) ==
  IF res.kind = "CustomResponse"
  THEN [Write(w, ReadAll(r).buf.bytes) EXCEPT !.calls = Append(@, r)]
  ELSE Write(AddHeaders(WriteHeader(w, res.statusCode), res.headers), res.body.bytes)

\* serveResponse calling the function of a CustomResponse twice
serveResponse_CallsTwice(res, w, r) ==
  IF res.kind = "CustomResponse"
  THEN [Write(Write(w, ReadAll(r).buf.bytes), ReadAll(ReadAll(r).r).buf.bytes)
          EXCEPT !.calls = @ \o <<r, ReadAll(r).r>>]
  ELSE Write(WriteHeader(AddHeaders(w, res.headers), res.statusCode), res.body.bytes)

\* Response.serveResponse and CustomResponse.serveResponse; the function of the
\* CustomResponse writes the body it reads from the request, and calls lists the
\* requests it was called with
serveResponse(res, w, r) ==
  IF res.kind = "CustomResponse"
  THEN [Write(w, ReadAll(r).buf.bytes) EXCEPT !.calls = Append(@, r)]
  ELSE Write(WriteHeader(AddHeaders(w, res.headers), res.statusCode), res.body.bytes)

-----------------------------------------------------------------------------
\* match: a Request, its responses and the requests it served

newConsumableResponsesMatch(request, responses) ==
  [kind |-> "consumable", request |-> request, responses |-> responses, matches |-> <<>>]

newInfiniteResponsesMatch(request, response) ==
  [kind |-> "infinite", request |-> request, responses |-> <<response>>, matches |-> <<>>]

\* NextResponse consuming the response of an infinite match as well
NextResponse_ConsumesInfinite(m) ==
  IF Len(m.responses) = 0
  THEN [err |-> TRUE, response |-> NewResponse, m |-> m]
  ELSE [err |-> FALSE, response |-> Head(m.responses),
        m |-> [m EXCEPT !.responses = Tail(@)]]

\* NextResponse giving the first response of a finite match without removing it
NextResponse_KeepsResponse(m) ==
  IF Len(m.responses) = 0
  THEN [err |-> TRUE, response |-> NewResponse, m |-> m]
  ELSE [err |-> FALSE, response |-> Head(m.responses), m |-> m]

\* match.NextResponse: the response and whether errNoNextResponseFound, and the match after the call
NextResponse(m) ==
  IF m.kind = "infinite"
  THEN [err |-> FALSE, response |-> m.responses[1], m |-> m]
  ELSE IF Len(m.responses) = 0
       THEN [err |-> TRUE, response |-> NewResponse, m |-> m]
       ELSE [err |-> FALSE, response |-> Head(m.responses),
             m |-> [m EXCEPT !.responses = Tail(@)]]

\* cloneHTTPRequest: the clone, and req with its body replaced by a fresh reader
cloneHTTPRequest(req) ==
  LET buf == ReadAll(req).buf.bytes
  IN [newRequest |-> [req EXCEPT !.body = buf], req |-> [req EXCEPT !.body = buf]]

\* RecordMatch forgetting the request
RecordMatch_Forgets(m, req) == m

\* match.RecordMatch
RecordMatch(m, req) == [m EXCEPT !.matches = Append(@, cloneHTTPRequest(req).newRequest)]

\* match.NumberOfCalls
NumberOfCalls(m) == Len(m.matches)

-----------------------------------------------------------------------------
\* MockTestingT

Fail(mt) == [mt EXCEPT !.HasFailed = TRUE]

Errorf(mt, format, args) ==
  Fail([mt EXCEPT !.Messages = Append(@, [format |-> format, args |-> args])])

NewMockTestingT == [HasFailed |-> FALSE, Messages |-> <<>>]

-----------------------------------------------------------------------------
\* default names

\* names drawn from one counter that all registries share
defaultName_Shared(baseString, counter) == <<baseString, counter + Len(other.requests)>>

\* the function defaultName(baseString) returns, at a value of its counter
defaultName(baseString, counter) == <<baseString, counter>>

\* Registry.Why: the misses one per line
Why(mis) == [i \in 1..Len(mis) |-> MissString(mis[i])]

-----------------------------------------------------------------------------
\* Registry: default names

\* Registry.ifNeededSetDefaultNameToRequest, given the counter of nameRequestFunction
ifNeededSetDefaultNameToRequest(request, counter) ==
  IF request.name = EmptyName
  THEN [request |-> WithName(request, defaultName("mock request", counter)), counter |-> counter + 1]
  ELSE [request |-> request, counter |-> counter]

\* Registry.ifNeededSetDefaultNameToMockResponse, given the counters of
\* nameResponseFunction and nameCustomResponseFunction
ifNeededSetDefaultNameToMockResponse(response, counter, customCounter) ==
  IF response.name # EmptyName
  THEN [response |-> response, counter |-> counter, customCounter |-> customCounter]
  ELSE IF response.kind = "CustomResponse"
       THEN [response |-> ResponseWithName(response, defaultName("custom mock response", customCounter)),
             counter |-> counter, customCounter |-> customCounter + 1]
       ELSE [response |-> ResponseWithName(response, defaultName("mock response", counter)),
             counter |-> counter + 1, customCounter |-> customCounter]

RECURSIVE NameResponses(_, _, _, _)
\* the loop of AddRequestWithResponses over its responses
NameResponses(responses, responsesWithNames, counter, customCounter) ==
  IF responses = <<>>
  THEN [responses |-> responsesWithNames, counter |-> counter, customCounter |-> customCounter]
  ELSE LET n == ifNeededSetDefaultNameToMockResponse(Head(responses), counter, customCounter)
       IN NameResponses(Tail(responses), Append(responsesWithNames, n.response),
                        n.counter, n.customCounter)

-----------------------------------------------------------------------------
\* The handler of Registry.GetServer, run from start to end without interruption

RECURSIVE MatchLoop_TakesFromNext(_, _, _, _)
\* the loop taking a response from the match after the one that serves as well
MatchLoop_TakesFromNext(ms, i, r, mis) ==
  IF i > Len(ms)
  THEN [matches |-> ms, misses |-> mis, r |-> r, servedBy |-> 0, response |-> NewResponse]
  ELSE LET res == doesRegisteredMatchMatchIncomingRequest(ms[i], r)
           nx == NextResponse(ms[i])
       IN IF ~res.doesMatch
          THEN MatchLoop_TakesFromNext(ms, i + 1, res.r, mis \o res.misses)
          ELSE IF nx.err
               THEN MatchLoop_TakesFromNext(ms, i + 1, res.r,
                                            Append(mis, newMiss(ms[i], outOfResponses)))
               ELSE [matches |-> [k \in 1..Len(ms) |->
                                    IF k = i THEN RecordMatch(nx.m, res.r)
                                    ELSE IF k = i + 1 THEN NextResponse(ms[k]).m
                                    ELSE ms[k]],
                     misses |-> mis,
                     r |-> cloneHTTPRequest(res.r).req,
                     servedBy |-> i,
                     response |-> nx.response]

RECURSIVE MatchLoop_TakesBeforeMatching(_, _, _, _)
\* the loop taking the next response of a match before it evaluates the predicate
MatchLoop_TakesBeforeMatching(ms, i, r, mis) ==
  IF i > Len(ms)
  THEN [matches |-> ms, misses |-> mis, r |-> r, servedBy |-> 0, response |-> NewResponse]
  ELSE LET res == doesRegisteredMatchMatchIncomingRequest(ms[i], r)
           nx == NextResponse(ms[i])
       IN IF ~res.doesMatch
          THEN MatchLoop_TakesBeforeMatching([ms EXCEPT ![i] = nx.m], i + 1, res.r,
                                             mis \o res.misses)
          ELSE IF nx.err
               THEN MatchLoop_TakesBeforeMatching(ms, i + 1, res.r,
                                                  Append(mis, newMiss(ms[i], outOfResponses)))
               ELSE [matches |-> [ms EXCEPT ![i] = RecordMatch(nx.m, res.r)],
                     misses |-> mis,
                     r |-> cloneHTTPRequest(res.r).req,
                     servedBy |-> i,
                     response |-> nx.response]

RECURSIVE MatchLoop(_, _, _, _)
\* the loop over reg.matches from index i on: the matches and misses it leaves, the
\* request as the evaluations left it, and the index of the match that serves (0: none)
MatchLoop(ms, i, r, mis) ==
  IF i > Len(ms)
  THEN [matches |-> ms, misses |-> mis, r |-> r, servedBy |-> 0, response |-> NewResponse]
  ELSE LET res == doesRegisteredMatchMatchIncomingRequest(ms[i], r)
           nx == NextResponse(ms[i])
       IN IF ~res.doesMatch
          THEN MatchLoop(ms, i + 1, res.r, mis \o res.misses)
          ELSE IF nx.err
               THEN MatchLoop(ms, i + 1, res.r, Append(mis, newMiss(ms[i], outOfResponses)))
               ELSE [matches |-> [ms EXCEPT ![i] = RecordMatch(nx.m, res.r)],
                     misses |-> mis,
                     r |-> cloneHTTPRequest(res.r).req,
                     servedBy |-> i,
                     response |-> nx.response]

\* httputil.DumpRequest(r, true): the request line, the headers and what is left of the body
DumpRequest(r) == [method |-> r.method, url |-> r.url, header |-> r.header, body |-> r.body]

\* NoMatch answering 500 without telling the TestingT
NoMatch_Silent(mt, mis, r) ==
  LET w1 == WriteHeader(NewResponseWriter, 500)
      w2 == HeaderSet(w1, "Content-Type", "application/json")
  IN [t |-> mt, w |-> Write(w2, Why(mis))]

\* the end of the handler when no match served the request
NoMatch(mt, mis, r) ==
  LET mt1 == Errorf(mt, "no registered request matched %v", <<DumpRequest(r)>>)
      w1 == WriteHeader(NewResponseWriter, 500)
      w2 == HeaderSet(w1, "Content-Type", "application/json")
  IN [t |-> mt1, w |-> Write(w2, Why(mis))]

\* the handler without the reset of reg.misses
ServeHTTP_KeepsMisses(ms, mt, r) ==
  LET loop == MatchLoop(ms, 1, r, misses)
      fatal == NoMatch(mt, loop.misses, loop.r)
  IN IF loop.servedBy # 0
     THEN [matches |-> loop.matches, misses |-> loop.misses, t |-> mt,
           w |-> serveResponse(loop.response, NewResponseWriter, loop.r),
           servedBy |-> loop.servedBy, response |-> loop.response]
     ELSE [matches |-> loop.matches, misses |-> loop.misses, t |-> fatal.t,
           w |-> fatal.w, servedBy |-> 0, response |-> NewResponse]

\* the handler failing the TestingT for the misses of a request that was served
ServeHTTP_ReportsSoftMisses(ms, mt, r) ==
  LET loop == MatchLoop(ms, 1, r, <<>>)
      fatal == NoMatch(mt, loop.misses, loop.r)
  IN IF loop.servedBy # 0
     THEN [matches |-> loop.matches, misses |-> loop.misses,
           t |-> IF loop.misses = <<>> THEN mt ELSE Fail(mt),
           w |-> serveResponse(loop.response, NewResponseWriter, loop.r),
           servedBy |-> loop.servedBy, response |-> loop.response]
     ELSE [matches |-> loop.matches, misses |-> loop.misses, t |-> fatal.t,
           w |-> fatal.w, servedBy |-> 0, response |-> NewResponse]

\* a handler that ranges over the matches the registry had when GetServer was called,
\* on the new registry: none
ServeHTTP_ListAtGetServer(ms, mt, r) ==
  LET fatal == NoMatch(mt, <<>>, r)
  IN [matches |-> ms, misses |-> <<>>, t |-> fatal.t,
      w |-> fatal.w, servedBy |-> 0, response |-> NewResponse]

\* the whole handler on request r
ServeHTTP(ms, mt, r) ==
  LET loop == MatchLoop(ms, 1, r, <<>>)
      fatal == NoMatch(mt, loop.misses, loop.r)
  IN IF loop.servedBy # 0
     THEN [matches |-> loop.matches, misses |-> loop.misses, t |-> mt,
           w |-> serveResponse(loop.response, NewResponseWriter, loop.r),
           servedBy |-> loop.servedBy, response |-> loop.response]
     ELSE [matches |-> loop.matches, misses |-> loop.misses, t |-> fatal.t,
           w |-> fatal.w, servedBy |-> 0, response |-> NewResponse]

RECURSIVE CheckLoop_StopsAtFirst(_, _, _)
\* CheckLoop returning at the first unused response
CheckLoop_StopsAtFirst(ms, i, mt) ==
  IF i > Len(ms) THEN [matches |-> ms, t |-> mt]
  ELSE LET nx == NextResponse(ms[i])
       IN IF ~nx.err
          THEN [matches |-> [ms EXCEPT ![i] = nx.m],
                t |-> Errorf(mt, "request %v has %v as unused response",
                             <<RequestString(ms[i].request), ResponseString(nx.response)>>)]
          ELSE CheckLoop_StopsAtFirst(ms, i + 1, mt)

RECURSIVE CheckLoop_SkipsServedInfinite(_, _, _)
\* a check that does not report a match that never runs out once it has served a request
CheckLoop_SkipsServedInfinite(ms, i, mt) ==
  IF i > Len(ms) THEN [matches |-> ms, t |-> mt]
  ELSE LET nx == NextResponse(ms[i])
       IN CheckLoop_SkipsServedInfinite(
            [ms EXCEPT ![i] = nx.m], i + 1,
            IF ~nx.err /\ ~(ms[i].kind = "infinite" /\ NumberOfCalls(ms[i]) > 0)
            THEN Errorf(mt, "request %v has %v as unused response",
                        <<RequestString(ms[i].request), ResponseString(nx.response)>>)
            ELSE mt)

RECURSIVE CheckLoop_ReportsEveryResponse(_, _, _)
\* a check that reports a match once for each response it still has
CheckLoop_ReportsEveryResponse(ms, i, mt) ==
  IF i > Len(ms) THEN [matches |-> ms, t |-> mt]
  ELSE LET nx == NextResponse(ms[i])
       IN IF ~nx.err /\ ms[i].kind # "infinite"
          THEN CheckLoop_ReportsEveryResponse(
                 [ms EXCEPT ![i] = nx.m], i,
                 Errorf(mt, "request %v has %v as unused response",
                        <<RequestString(ms[i].request), ResponseString(nx.response)>>))
          ELSE CheckLoop_ReportsEveryResponse(
                 ms, i + 1,
                 IF ~nx.err
                 THEN Errorf(mt, "request %v has %v as unused response",
                             <<RequestString(ms[i].request), ResponseString(nx.response)>>)
                 ELSE mt)

RECURSIVE CheckLoop(_, _, _)
\* the loop of CheckAllResponsesAreConsumed from index i on
CheckLoop(ms, i, mt) ==
  IF i > Len(ms) THEN [matches |-> ms, t |-> mt]
  ELSE LET nx == NextResponse(ms[i])
       IN CheckLoop([ms EXCEPT ![i] = nx.m], i + 1,
                    IF ~nx.err
                    THEN Errorf(mt, "request %v has %v as unused response",
                                <<RequestString(ms[i].request), ResponseString(nx.response)>>)
                    ELSE mt)

-----------------------------------------------------------------------------
\* Inputs of the model

PathUsers == <<"/", "u">>

PathOther == <<"/", "o">>

GetUsers == WithURL(WithMethod(NewRequest, "GET"), PathUsers)

ResponseA == ResponseWithBody(WithStatus(NewResponse, 201), Bytes(<<"x">>))

ResponseB == ResponseWithBody(WithStatus(NewResponse, 201), Bytes(<<"y">>))

ResponseC == WithStatus(NewResponse, 404)

GetUsersRequest == HTTPRequest("GET", PathUsers, {}, <<>>)

PostOtherRequest == HTTPRequest("POST", PathOther, {}, <<"b">>)

\* the requests the clients send
ClientRequests == {GetUsersRequest, PostOtherRequest}

NoRequest == HTTPRequest("", <<>>, {}, <<>>)

NoLast ==
  [op |-> "none", r |-> NoRequest, w |-> NewResponseWriter, servedBy |-> 0, response |-> NewResponse,
   returned |-> <<>>]

\* the values that exist when the program starts, DefaultRequest and OkResponse, each
\* a struct (val) whose headers field points to a map (ref, an index of maps)
PackageObjects ==
  [maps |-> <<{}, {}>>,
   vals |-> <<[val |-> DefaultRequest, ref |-> 1], [val |-> OkResponse, ref |-> 2]>>]

\* the name functions NewRegistry makes for a registry, each with its counter at 1,
\* and the names the registry has given to requests
NewNames ==
  [nameRequestCounter |-> 1, nameResponseCounter |-> 1, nameCustomResponseCounter |-> 1,
   requests |-> <<>>]

NoProbe ==
  [match |-> newConsumableResponsesMatch(NewRequest, <<>>), r |-> NoRequest, done |-> FALSE,
   doesMatch |-> FALSE, misses |-> <<>>]

-----------------------------------------------------------------------------
\* The registry used by one client at a time

\* NewRegistry
Init ==
  /\ matches = <<>>
  /\ misses = <<>>
  /\ t = NewMockTestingT
  /\ nameRequestCounter = 1
  /\ nameResponseCounter = 1
  /\ nameCustomResponseCounter = 1
  /\ last = NoLast
  /\ nRequests = 0
  /\ nChecks = 0
  /\ registered = <<>>
  /\ served = <<>>
  /\ received = <<>>
  /\ handlers = <<>>
  /\ probe = NoProbe
  /\ objects = PackageObjects
  /\ adders = <<>>
  /\ other = NewNames

\* an Add method that puts the new match in front of the others
AppendMatch_Prepends(m) ==
  /\ Len(matches) < MaxMatches
  /\ matches' = <<m>> \o matches
  /\ registered' = <<m.responses>> \o registered
  /\ served' = <<<<>>>> \o served
  /\ received' = <<<<>>>> \o received
  /\ last' = [NoLast EXCEPT !.op = "add"]
  /\ UNCHANGED <<misses, t, nRequests, nChecks, handlers, probe, objects, adders, other>>

\* reg.matches = append(reg.matches, m), the last statement of every Add method
AppendMatch(m) ==
  /\ Len(matches) < MaxMatches
  /\ matches' = Append(matches, m)
  /\ registered' = Append(registered, m.responses)
  /\ served' = Append(served, <<>>)
  /\ received' = Append(received, <<>>)
  /\ last' = [NoLast EXCEPT !.op = "add"]
  /\ UNCHANGED <<misses, t, nRequests, nChecks, handlers, probe, objects, adders, other>>

\* Registry.AddRequestWithResponses
AddRequestWithResponses(request, responses) ==
  LET rq == ifNeededSetDefaultNameToRequest(request, nameRequestCounter)
      rs == NameResponses(responses, <<>>, nameResponseCounter, nameCustomResponseCounter)
  IN /\ AppendMatch(newConsumableResponsesMatch(rq.request, rs.responses))
     /\ nameRequestCounter' = rq.counter
     /\ nameResponseCounter' = rs.counter
     /\ nameCustomResponseCounter' = rs.customCounter

\* Registry.AddMethodAndURLWithStatusCode
AddMethodAndURLWithStatusCode(method, URL, statusCode) ==
  LET request == WithName(WithURL(WithMethod(NewRequest, method), URL),
                          defaultName("mock request", nameRequestCounter))
      response == ResponseWithName(WithStatus(NewResponse, statusCode),
                                   defaultName("mock response", nameResponseCounter))
  IN /\ AppendMatch(newConsumableResponsesMatch(request, <<response>>))
     /\ nameRequestCounter' = nameRequestCounter + 1
     /\ nameResponseCounter' = nameResponseCounter + 1
     /\ UNCHANGED nameCustomResponseCounter

\* Registry.AddBody
AddBody(body) ==
  LET request == WithName(WithBody(NewRequest, body),
                          defaultName("mock request", nameRequestCounter))
  IN /\ AppendMatch(newConsumableResponsesMatch(request, <<OkResponse>>))
     /\ nameRequestCounter' = nameRequestCounter + 1
     /\ UNCHANGED <<nameResponseCounter, nameCustomResponseCounter>>

\* Registry.AddInfiniteResponse
AddInfiniteResponse(response) ==
  LET request == WithName(NewRequest, defaultName("mock request", nameRequestCounter))
      rs == ifNeededSetDefaultNameToMockResponse(response, nameResponseCounter,
                                                 nameCustomResponseCounter)
  IN /\ AppendMatch(newInfiniteResponsesMatch(request, rs.response))
     /\ nameRequestCounter' = nameRequestCounter + 1
     /\ nameResponseCounter' = rs.counter
     /\ nameCustomResponseCounter' = rs.customCounter

\* Registry.AddRequestWithInfiniteResponse
AddRequestWithInfiniteResponse(request, response) ==
  LET rq == ifNeededSetDefaultNameToRequest(request, nameRequestCounter)
      rs == ifNeededSetDefaultNameToMockResponse(response, nameResponseCounter,
                                                 nameCustomResponseCounter)
  IN /\ AppendMatch(newInfiniteResponsesMatch(rq.request, rs.response))
     /\ nameRequestCounter' = rq.counter
     /\ nameResponseCounter' = rs.counter
     /\ nameCustomResponseCounter' = rs.customCounter

\* a client sends r and the handler of GetServer answers it
Dispatch(r) ==
  /\ nRequests < MaxRequests
  /\ LET out == ServeHTTP(matches, t, r)
     IN /\ matches' = out.matches
        /\ misses' = out.misses
        /\ t' = out.t
        /\ last' = [op |-> "dispatch", r |-> r, w |-> out.w, servedBy |-> out.servedBy,
                    response |-> out.response, returned |-> <<>>]
        /\ served' = IF out.servedBy = 0 THEN served
                     ELSE [served EXCEPT ![out.servedBy] = Append(@, out.response)]
        /\ received' = IF out.servedBy = 0 THEN received
                       ELSE [received EXCEPT ![out.servedBy] = Append(@, r)]
  /\ nRequests' = nRequests + 1
  /\ UNCHANGED <<nameRequestCounter, nameResponseCounter, nameCustomResponseCounter,
                 nChecks, registered, handlers, probe, objects, adders, other>>

\* Registry.CheckAllResponsesAreConsumed
CheckAllResponsesAreConsumed ==
  /\ nChecks < MaxChecks
  /\ LET out == CheckLoop(matches, 1, t)
     IN /\ matches' = out.matches
        /\ t' = out.t
  /\ last' = [NoLast EXCEPT !.op = "check"]
  /\ nChecks' = nChecks + 1
  /\ UNCHANGED <<misses, nameRequestCounter, nameResponseCounter, nameCustomResponseCounter,
                 nRequests, registered, served, received, handlers, probe, objects, adders, other>>

\* matches on GET /users: finite ones, a wildcard that never runs out, a computed response
Next ==
  \/ AddRequestWithResponses(GetUsers, <<ResponseA, ResponseB, ResponseC>>)
  \/ AddMethodAndURLWithStatusCode("GET", PathUsers, 404)
  \/ AddInfiniteResponse(NewResponse)
  \/ AddRequestWithInfiniteResponse(GetUsers, NewCustomResponse)
  \/ \E r \in ClientRequests : Dispatch(r)
  \/ CheckAllResponsesAreConsumed

Spec == Init /\ [][Next]_vars

\* matches on the body of the request
NextBody ==
  \/ \E body \in {Bytes(<<"a">>), Bytes(<<"b">>)} : AddBody(body)
  \/ \E r \in ClientRequests : Dispatch(r)
  \/ CheckAllResponsesAreConsumed

SpecBody == Init /\ [][NextBody]_vars

-----------------------------------------------------------------------------
\* Properties of the handler and of CheckAllResponsesAreConsumed

\* the step is a request answered by the handler
IsDispatch == nRequests' = nRequests + 1

\* the step is a call of CheckAllResponsesAreConsumed
IsCheck == nChecks' = nChecks + 1

\* the pattern of match m matches request r
PatternMatches(m, r) == doesRegisteredMatchMatchIncomingRequest(m, r).doesMatch

\* match m still has a response to give
HasUnconsumed(m) == ~NextResponse(m).err

\* the matches that could serve r
Eligible(ms, r) == {i \in 1..Len(ms) : PatternMatches(ms[i], r) /\ HasUnconsumed(ms[i])}

\* C1: a request is served by the first match, in registration order, whose pattern
\* matches it and which still has a response, with the next response of that match;
\* a matching match that has run out does not block a later one; the request is not
\* served only when there is no such match.
C1_Precedence ==
  [][IsDispatch =>
       LET e == Eligible(matches, last'.r)
       IN IF e = {} THEN last'.servedBy = 0
          ELSE /\ last'.servedBy = Min(e)
               /\ last'.response = NextResponse(matches[Min(e)]).response]_vars

\* a request with body "b" was answered 500 although the second match, registered
\* for the body "b", matches it and has its response
C1_Witness ==
  /\ last.op = "dispatch"
  /\ last.r = PostOtherRequest
  /\ last.servedBy = 0
  /\ Len(matches) = 2
  /\ PatternMatches(matches[2], last.r)
  /\ HasUnconsumed(matches[2])

\* the miss a match that has run out leaves
ExhaustionMiss(m) == newMiss(m, outOfResponses)

InMisses(x) == \E k \in 1..Len(misses) : misses[k] = x

\* C3: a match registered with a list of responses gives them to the successive
\* requests it serves in the order of the list, each once and none skipped, and a
\* matching request finds it out of responses only after all of the list was served.
C3_FIFOConsumption ==
  \A i \in 1..Len(matches) :
    matches[i].kind = "consumable" =>
      /\ served[i] = SubSeq(registered[i], 1, Len(served[i]))
      /\ (last.op = "dispatch" /\ InMisses(ExhaustionMiss(matches[i])))
           => served[i] = registered[i]

\* after a call of CheckAllResponsesAreConsumed the first request served by a match
\* registered with three responses got the second of them
C3_Witness ==
  /\ nChecks = 1
  /\ last.op = "dispatch"
  /\ last.servedBy = 1
  /\ Len(registered[1]) = 3
  /\ served[1] = <<registered[1][2]>>

RECURSIVE ExpectedMisses(_, _, _)
\* the misses the matches from index i on leave for a request that none of them
\* serves: those of the predicate for a match it rejects, the exhaustion miss for a
\* match it accepts; r is the request as the earlier evaluations left it
ExpectedMisses(ms, i, r) ==
  IF i > Len(ms) THEN <<>>
  ELSE LET res == doesRegisteredMatchMatchIncomingRequest(ms[i], r)
       IN (IF ~res.doesMatch THEN res.misses ELSE <<ExhaustionMiss(ms[i])>>)
            \o ExpectedMisses(ms, i + 1, res.r)

RECURSIVE UnusedReports(_, _)
\* one message for each match from index i on that still has a response
UnusedReports(ms, i) ==
  IF i > Len(ms) THEN <<>>
  ELSE (IF Len(ms[i].responses) > 0
        THEN <<[format |-> "request %v has %v as unused response",
                args |-> <<ms[i].request.name, ms[i].responses[1].name>>]>>
        ELSE <<>>) \o UnusedReports(ms, i + 1)

C6_CheckIsAPeek ==
  [][IsCheck => \A i \in 1..Len(matches) : matches'[i].responses = matches[i].responses]_vars

\* a call of CheckAllResponsesAreConsumed left two of the three responses of a match
\* that served no request
C6_Witness ==
  /\ last.op = "check"
  /\ \E i \in 1..Len(matches) :
       /\ Len(registered[i]) = 3
       /\ served[i] = <<>>
       /\ matches[i].responses = Tail(registered[i])

-----------------------------------------------------------------------------
\* The matching predicate on its own: patterns built with the builders of Request,
\* evaluated once against an incoming request

\* the requests the builders start from
BaseRequests == {NewRequest, DefaultRequest, WithName(NewRequest, Str("named"))}

WithURLOptions(r) == {r, WithURL(r, <<>>), WithURL(r, PathUsers)}

WithMethodOptions(r) == {r, WithMethod(r, "GET")}

WithHeadersOptions(r) ==
  {r, WithHeader(r, "Accept", "foo"),
   WithHeaders(r, {<<"Accept", "foo">>, <<"Authorization", "bar">>})}

WithBodyOptions(r) == {r, WithBody(r, NilBytes), WithBody(r, Bytes(<<"a">>))}

ProbePatterns ==
  UNION {UNION {UNION {UNION {WithBodyOptions(d) : d \in WithHeadersOptions(c)}
                       : c \in WithMethodOptions(b)}
                : b \in WithURLOptions(a)}
         : a \in BaseRequests}

ProbeRequests ==
  {HTTPRequest(method, url, header, body) :
     method \in {"GET", "POST"},
     url \in {PathUsers, PathOther},
     header \in {{}, {<<"Accept", "foo">>}, {<<"Accept", "bar">>},
                 {<<"Accept", "foo">>, <<"Authorization", "bar">>}},
     body \in {<<>>, <<"a">>, <<"b">>}}

InitMatch ==
  /\ matches = <<>>
  /\ misses = <<>>
  /\ t = NewMockTestingT
  /\ nameRequestCounter = 1
  /\ nameResponseCounter = 1
  /\ nameCustomResponseCounter = 1
  /\ last = NoLast
  /\ nRequests = 0
  /\ nChecks = 0
  /\ registered = <<>>
  /\ served = <<>>
  /\ received = <<>>
  /\ handlers = <<>>
  /\ objects = PackageObjects
  /\ adders = <<>>
  /\ other = NewNames
  /\ probe \in {[NoProbe EXCEPT !.match = newConsumableResponsesMatch(p, <<>>), !.r = q] :
                  p \in ProbePatterns, q \in ProbeRequests}

\* one call of doesRegisteredMatchMatchIncomingRequest
Evaluate ==
  /\ ~probe.done
  /\ LET res == doesRegisteredMatchMatchIncomingRequest(probe.match, probe.r)
     IN probe' = [probe EXCEPT !.done = TRUE, !.doesMatch = res.doesMatch,
                               !.misses = res.misses]
  /\ UNCHANGED <<matches, misses, t, nameRequestCounter, nameResponseCounter,
                 nameCustomResponseCounter, last, nRequests, nChecks, registered,
                 served, received, handlers, objects, adders, other>>

NextMatch == Evaluate

SpecMatch == InitMatch /\ [][NextMatch]_vars

\* the dimensions of the pattern and whether the request satisfies them
URLSpecified(p) == p.url # <<>>
MethodSpecified(p) == p.method # ""
BodySpecified(p) == LenBytes(p.body) > 0
URLHolds(p, r) == MatchString(p.urlAsRegex, r.url)
MethodHolds(p, r) == p.method = r.method
BodyHolds(p, r) == p.body.bytes = r.body
HeaderHolds(h, r) == \E q \in r.header : q = h

\* C2: the predicate reports a match only if every specified dimension of the
\* pattern (URL regex, method, each required header, body) holds for the request.
C2_ConjunctiveMatching ==
  (probe.done /\ probe.doesMatch) =>
    LET p == probe.match.request
    IN /\ URLSpecified(p) => URLHolds(p, probe.r)
       /\ MethodSpecified(p) => MethodHolds(p, probe.r)
       /\ \A h \in p.headers : HeaderHolds(h, probe.r)
       /\ BodySpecified(p) => BodyHolds(p, probe.r)

\* the pattern GET /u matched a POST request to /u
C2_Witness ==
  /\ probe.done
  /\ probe.doesMatch
  /\ probe.match.request = WithMethod(WithURL(NewRequest, PathUsers), "GET")
  /\ probe.r = HTTPRequest("POST", PathUsers, {}, <<>>)

\* C9: a pattern requiring header h with value v does not match a request that lacks
\* h or carries another value for it, and the predicate then gives a "the header does
\* not match" miss.
C9_RequiredHeaders ==
  (probe.done /\ \E h \in probe.match.request.headers : ~HeaderHolds(h, probe.r)) =>
    /\ ~probe.doesMatch
    /\ \E k \in 1..Len(probe.misses) : probe.misses[k].Why = headerDoesNotMatch

\* the pattern requiring Accept: foo matched a request without headers, with no miss
C9_Witness ==
  /\ probe.done
  /\ probe.doesMatch
  /\ probe.misses = <<>>
  /\ probe.match.request = WithHeader(NewRequest, "Accept", "foo")
  /\ probe.r.header = {}

\* every dimension of the pattern is empty
AllEmpty(p) ==
  ~URLSpecified(p) /\ ~MethodSpecified(p) /\ p.headers = {} /\ ~BodySpecified(p)

\* C10: a pattern all of whose dimensions are empty, however it was built, matches
\* every request and gives no miss.
C10_Wildcard ==
  (probe.done /\ AllEmpty(probe.match.request)) =>
    (probe.doesMatch /\ probe.misses = <<>>)

\* the pattern NewRequest().WithBody(nil) did not match a request
C10_Witness ==
  /\ probe.done
  /\ ~probe.doesMatch
  /\ probe.match.request = WithBody(NewRequest, NilBytes)

-----------------------------------------------------------------------------
\* The handler of GetServer run by several goroutines of the http server at once.
\* No statement of the handler takes a lock: every read and every write of a field
\* of the registry or of a match is a step of its own.

\* a goroutine of the server that has not received its request yet
IdleHandler ==
  [pc |-> "idle", r |-> NoRequest, r0 |-> NoRequest, i |-> 0, head |-> NewResponse,
   tail |-> <<>>, seen |-> <<>>, servedBy |-> 0, response |-> NewResponse,
   w |-> NewResponseWriter]

\* the registries the server is started on: one match with one to three responses
ConcurrentResponses ==
  {<<ResponseA>>, <<ResponseA, ResponseB>>, <<ResponseA, ResponseB, ResponseC>>}

InitConc ==
  /\ \E responses \in ConcurrentResponses :
       LET rq == ifNeededSetDefaultNameToRequest(GetUsers, 1)
           rs == NameResponses(responses, <<>>, 1, 1)
       IN /\ matches = <<newConsumableResponsesMatch(rq.request, rs.responses)>>
          /\ registered = <<rs.responses>>
          /\ nameRequestCounter = rq.counter
          /\ nameResponseCounter = rs.counter
          /\ nameCustomResponseCounter = rs.customCounter
  /\ misses = <<>>
  /\ t = NewMockTestingT
  /\ last = NoLast
  /\ nRequests = 0
  /\ nChecks = 0
  /\ served = <<<<>>>>
  /\ received = <<<<>>>>
  /\ handlers = [h \in 1..MaxConcurrent |-> IdleHandler]
  /\ probe = NoProbe
  /\ objects = PackageObjects
  /\ adders = <<>>
  /\ other = NewNames

\* what no step of a handler changes
HandlerFrame ==
  UNCHANGED <<nameRequestCounter, nameResponseCounter, nameCustomResponseCounter, last,
              nRequests, nChecks, registered, received, probe, objects, adders, other>>

\* the handler is called: reg.misses = []miss{} and the range over reg.matches begins
StartHandler(h, r) ==
  /\ handlers[h].pc = "idle"
  /\ misses' = <<>>
  /\ handlers' = [handlers EXCEPT ![h] = [@ EXCEPT !.pc = "loop", !.r = r, !.r0 = r, !.i = 1]]
  /\ UNCHANGED <<matches, t, served>>
  /\ HandlerFrame

\* doesRegisteredMatchMatchIncomingRequest on the current match, and the misses appended
EvaluateMatch(h) ==
  /\ handlers[h].pc = "loop"
  /\ handlers[h].i <= Len(matches)
  /\ LET res == doesRegisteredMatchMatchIncomingRequest(matches[handlers[h].i], handlers[h].r)
     IN IF ~res.doesMatch
        THEN /\ misses' = misses \o res.misses
             /\ handlers' = [handlers EXCEPT ![h] = [@ EXCEPT !.r = res.r, !.i = @ + 1]]
        ELSE /\ misses' = misses
             /\ handlers' = [handlers EXCEPT ![h] = [@ EXCEPT !.r = res.r, !.pc = "next"]]
  /\ UNCHANGED <<matches, t, served>>
  /\ HandlerFrame

\* NextResponse, first half: the length test and the read of head and tail
ReadResponses(h) ==
  /\ handlers[h].pc = "next"
  /\ LET m == matches[handlers[h].i]
         nx == NextResponse(m)
     IN IF nx.err
        THEN /\ misses' = Append(misses, newMiss(m, outOfResponses))
             /\ handlers' = [handlers EXCEPT ![h] = [@ EXCEPT !.pc = "loop", !.i = @ + 1]]
        ELSE /\ misses' = misses
             /\ handlers' = [handlers EXCEPT ![h] =
                               [@ EXCEPT !.pc = "pop", !.head = nx.response,
                                         !.tail = nx.m.responses]]
  /\ UNCHANGED <<matches, t, served>>
  /\ HandlerFrame

\* NextResponse, second half: m.responses = tail
WriteResponses(h) ==
  /\ handlers[h].pc = "pop"
  /\ matches' = [matches EXCEPT ![handlers[h].i].responses = handlers[h].tail]
  /\ handlers' = [handlers EXCEPT ![h] = [@ EXCEPT !.pc = "record"]]
  /\ UNCHANGED <<misses, t, served>>
  /\ HandlerFrame

\* RecordMatch, first half: the read of m.matches by append
ReadMatches(h) ==
  /\ handlers[h].pc = "record"
  /\ handlers' = [handlers EXCEPT ![h] =
                    [@ EXCEPT !.pc = "append", !.seen = matches[handlers[h].i].matches]]
  /\ UNCHANGED <<matches, misses, t, served>>
  /\ HandlerFrame

\* RecordMatch, second half: m.matches = the slice read with the clone appended
WriteMatches(h) ==
  /\ handlers[h].pc = "append"
  /\ LET clone == cloneHTTPRequest(handlers[h].r)
     IN /\ matches' = [matches EXCEPT ![handlers[h].i].matches =
                                        Append(handlers[h].seen, clone.newRequest)]
        /\ handlers' = [handlers EXCEPT ![h] = [@ EXCEPT !.pc = "serve", !.r = clone.req]]
  /\ UNCHANGED <<misses, t, served>>
  /\ HandlerFrame

\* response.serveResponse(w, r) and the return of the handler
ServeResponse(h) ==
  /\ handlers[h].pc = "serve"
  /\ handlers' = [handlers EXCEPT ![h] =
                    [@ EXCEPT !.pc = "done", !.servedBy = handlers[h].i,
                              !.response = handlers[h].head,
                              !.w = serveResponse(handlers[h].head, NewResponseWriter,
                                                  handlers[h].r)]]
  /\ served' = [served EXCEPT ![handlers[h].i] = Append(@, handlers[h].head)]
  /\ UNCHANGED <<matches, misses, t>>
  /\ HandlerFrame

\* the end of the range: no match served the request
FailRequest(h) ==
  /\ handlers[h].pc = "loop"
  /\ handlers[h].i > Len(matches)
  /\ LET fatal == NoMatch(t, misses, handlers[h].r)
     IN /\ t' = fatal.t
        /\ handlers' = [handlers EXCEPT ![h] = [@ EXCEPT !.pc = "done", !.w = fatal.w]]
  /\ UNCHANGED <<matches, misses, served>>
  /\ HandlerFrame

NextConc ==
  \/ \E h \in 1..MaxConcurrent, r \in ClientRequests : StartHandler(h, r)
  \/ \E h \in 1..MaxConcurrent : EvaluateMatch(h)
  \/ \E h \in 1..MaxConcurrent : ReadResponses(h)
  \/ \E h \in 1..MaxConcurrent : WriteResponses(h)
  \/ \E h \in 1..MaxConcurrent : ReadMatches(h)
  \/ \E h \in 1..MaxConcurrent : WriteMatches(h)
  \/ \E h \in 1..MaxConcurrent : ServeResponse(h)
  \/ \E h \in 1..MaxConcurrent : FailRequest(h)

SpecConc == InitConc /\ [][NextConc]_vars

\* the handlers that were given a response of the match
ServedHandlers == {h \in DOMAIN handlers : handlers[h].servedBy = 1}

\* the handlers whose request matches the pattern of the match
MatchingHandlers == {h \in DOMAIN handlers : PatternMatches(matches[1], handlers[h].r0)}

\* C7: when the handler has answered m concurrent matching requests against a match
\* registered with k responses, no response was served twice, min(k, m) requests were
\* served by the match, and its history has one entry for each of them.
C7_AtomicDispatch ==
  (\A h \in DOMAIN handlers : handlers[h].pc = "done") =>
    /\ \A h1, h2 \in ServedHandlers :
         h1 # h2 => handlers[h1].response # handlers[h2].response
    /\ Cardinality(ServedHandlers) =
         Min({Len(registered[1]), Cardinality(MatchingHandlers)})
    /\ NumberOfCalls(matches[1]) = Cardinality(ServedHandlers)

\* two requests were both answered with the first of two responses, which the match
\* still holds the second of
C7_Witness ==
  /\ \A h \in DOMAIN handlers : handlers[h].pc = "done"
  /\ Len(registered[1]) = 2
  /\ \A h \in DOMAIN handlers : handlers[h].servedBy = 1 /\ handlers[h].response = registered[1][1]
  /\ matches[1].responses = <<registered[1][2]>>

-----------------------------------------------------------------------------
\* The registry with matches on GET /users and GET requests to either path; one of
\* the responses carries headers and a body

ResponseH ==
  ResponseWithBody(
    ResponseWithHeader(ResponseWithHeader(WithStatus(NewResponse, 201), "Content-Type", "json"),
                       "X-Id", "1"),
    Bytes(<<"x", "y">>))

RouteRequests == {HTTPRequest("GET", url, {}, <<>>) : url \in {PathUsers, PathOther}}

\* C11: with the single match GET /users, a GET request to the unrelated path /other
\* is not served by it: the handler answers 500 and the misses hold one with the
\* reason "the path does not match".
C11_ScenarioA ==
  [][(/\ IsDispatch
      /\ Len(matches) = 1
      /\ Equal(matches[1].request, GetUsers)
      /\ last'.r = HTTPRequest("GET", PathOther, {}, <<>>))
     => /\ last'.servedBy = 0
        /\ last'.w.status = 500
        /\ \E k \in 1..Len(misses') : misses'[k].Why = pathDoesNotMatch]_vars

\* the single match GET /users, registered with status 200, answered GET /other with 200
C11_Witness ==
  /\ last.op = "dispatch"
  /\ Len(matches) = 1
  /\ matches[1].kind = "consumable"
  /\ Equal(matches[1].request, GetUsers)
  /\ last.r = HTTPRequest("GET", PathOther, {}, <<>>)
  /\ last.servedBy = 1
  /\ last.w.status = 200
  /\ misses = <<>>

-----------------------------------------------------------------------------
\* The misses the matching predicate returns

\* the predicate returned a miss with the reason why
HasMiss(why) == \E k \in 1..Len(probe.misses) : probe.misses[k].Why = why

\* the URL, the method or a required header of the pattern fails for the request
SomeDimensionFails(p, r) ==
  \/ URLSpecified(p) /\ ~URLHolds(p, r)
  \/ MethodSpecified(p) /\ ~MethodHolds(p, r)
  \/ \E h \in p.headers : ~HeaderHolds(h, r)

\* C12: when a dimension of the pattern fails, the predicate reports no match and
\* returns a miss for every failing dimension, not only the first: "the path does not
\* match" if the URL fails, "the method does not match" if the method fails, "the
\* header does not match" if a required header fails.
C12_MissCompleteness ==
  LET p == probe.match.request
  IN (probe.done /\ SomeDimensionFails(p, probe.r)) =>
       /\ ~probe.doesMatch
       /\ (URLSpecified(p) /\ ~URLHolds(p, probe.r)) => HasMiss(pathDoesNotMatch)
       /\ (MethodSpecified(p) /\ ~MethodHolds(p, probe.r)) => HasMiss(methodDoesNotMatch)
       /\ (\E h \in p.headers : ~HeaderHolds(h, probe.r)) => HasMiss(headerDoesNotMatch)

\* the pattern GET /u with the header Accept: foo against POST /u without headers:
\* the URL matches, the method and the header fail, the predicate returned no miss
C12_Witness ==
  /\ probe.done
  /\ probe.match.request =
       WithHeader(WithMethod(WithURL(NewRequest, PathUsers), "GET"), "Accept", "foo")
  /\ probe.r = HTTPRequest("POST", PathUsers, {}, <<>>)
  /\ probe.doesMatch
  /\ probe.misses = <<>>

-----------------------------------------------------------------------------
\* The requests a match has served, read back with the GetMatches methods

\* the loop of a GetMatches method over match.Matches(): the clones returned and the
\* match with every archived request as cloneHTTPRequest leaves it
CloneMatches(m) ==
  [returned |-> [k \in 1..Len(m.matches) |-> cloneHTTPRequest(m.matches[k]).newRequest],
   m |-> [m EXCEPT !.matches = [k \in 1..Len(m.matches) |-> cloneHTTPRequest(m.matches[k]).req]]]

\* what a GetMatches method does once its range has selected the matches of found:
\* the first of them is cloned, none gives the empty slice
ReturnMatches(found) ==
  /\ IF found = {}
     THEN /\ matches' = matches
          /\ last' = [NoLast EXCEPT !.op = "get"]
     ELSE LET out == CloneMatches(matches[Min(found)])
          IN /\ matches' = [matches EXCEPT ![Min(found)] = out.m]
             /\ last' = [NoLast EXCEPT !.op = "get", !.servedBy = Min(found),
                                       !.returned = out.returned]
  /\ UNCHANGED <<misses, t, nameRequestCounter, nameResponseCounter,
                 nameCustomResponseCounter, nRequests, nChecks, registered, served,
                 received, handlers, probe, objects, adders, other>>

\* Registry.GetMatchesForRequest
GetMatchesForRequest(r) ==
  ReturnMatches({i \in 1..Len(matches) : Equal(matches[i].request, r)})

\* Registry.GetMatchesForURL
GetMatchesForURL(url) ==
  ReturnMatches({i \in 1..Len(matches) : MatchString(matches[i].request.urlAsRegex, url)})

\* Registry.GetMatchesURLAndMethod
GetMatchesURLAndMethod(url, method) ==
  ReturnMatches({i \in 1..Len(matches) :
                   /\ MatchString(matches[i].request.urlAsRegex, url)
                   /\ matches[i].request.method = method})

\* the caller reads the body of the k-th request it was returned to the end
ReadReturnedBody(k) ==
  /\ last.op = "get"
  /\ k \in 1..Len(last.returned)
  /\ last' = [last EXCEPT !.op = "read", !.returned[k] = ReadAll(@).r]
  /\ UNCHANGED <<matches, misses, t, nameRequestCounter, nameResponseCounter,
                 nameCustomResponseCounter, nRequests, nChecks, registered, served,
                 received, handlers, probe, objects, adders, other>>

BodyB == WithBody(NewRequest, Bytes(<<"b">>))

PostAny == WithMethod(NewRequest, "POST")

NextHistory ==
  \/ AddBody(Bytes(<<"b">>))
  \/ AddRequestWithInfiniteResponse(PostAny, NewCustomResponse)
  \/ \E r \in ClientRequests : Dispatch(r)
  \/ CheckAllResponsesAreConsumed
  \/ GetMatchesForRequest(BodyB)
  \/ GetMatchesForURL(PathOther)
  \/ GetMatchesURLAndMethod(PathOther, "POST")
  \/ \E k \in 1..MaxRequests : ReadReturnedBody(k)

SpecHistory == Init /\ [][NextHistory]_vars

\* one route, GET /u, registered with a status code or with a response that never runs
\* out, the requests sent to it, and the reads of its history
NextRoute ==
  \/ AddMethodAndURLWithStatusCode("GET", PathUsers, 200)
  \/ AddRequestWithInfiniteResponse(GetUsers, ResponseH)
  \/ \E r \in RouteRequests : Dispatch(r)
  \/ CheckAllResponsesAreConsumed
  \/ GetMatchesForRequest(GetUsers)

SpecRoute == Init /\ [][NextRoute]_vars

\* the k-th request archived by match i has the body its request arrived with
ArchivedBodyIntact(i, k) == matches[i].matches[k].body = received[i][k].body

\* C13: evaluating the patterns and archiving the request never consume the body of
\* the request: every archived copy has the body the request arrived with, and a
\* CustomResponse handler is given the request with that body (here it writes back
\* the body it reads).
C13_NonDestructiveBody ==
  /\ \A i \in 1..Len(matches) :
       \A k \in 1..Len(matches[i].matches) :
         k <= Len(received[i]) => ArchivedBodyIntact(i, k)
  /\ (last.op = "dispatch" /\ last.servedBy # 0 /\ last.response.kind = "CustomResponse")
       => last.w.body = last.r.body

\* a request with body "b" passed a match registered for the body "b" that had run
\* out, and was served by the next match: its CustomResponse handler read an empty
\* body and the archived copy has an empty body
C13_Witness ==
  /\ last.op = "dispatch"
  /\ last.servedBy = 2
  /\ last.r.body = <<"b">>
  /\ last.response.kind = "CustomResponse"
  /\ last.w.body = <<>>
  /\ matches[2].matches[Len(matches[2].matches)].body = <<>>

\* C14: a GetMatches method returns, for the match it selects, one request for each
\* request the match served, with the body that request arrived with, on every call;
\* and after the caller has read a returned body to the end the archived copies still
\* have the bodies the requests arrived with.
C14_IdempotentHistoryRead ==
  (last.op \in {"get", "read"} /\ last.servedBy # 0) =>
    LET i == last.servedBy
    IN /\ Len(last.returned) = Len(received[i])
       /\ last.op = "get" =>
            \A k \in 1..Len(last.returned) : last.returned[k].body = received[i][k].body
       /\ \A k \in 1..Len(matches[i].matches) : ArchivedBodyIntact(i, k)

\* GetMatchesForRequest on the request AddBody registered returned the one request the
\* match served, with an empty body, although the request arrived with the body "b"
C14_Witness ==
  /\ last.op = "get"
  /\ last.servedBy = 1
  /\ Equal(matches[1].request, BodyB)
  /\ Len(last.returned) = 1
  /\ last.returned[1].body = <<>>
  /\ received[1][1].body = <<"b">>

-----------------------------------------------------------------------------
\* The history of a match

\* s is a prefix of u
IsPrefix(s, u) == Len(s) <= Len(u) /\ SubSeq(u, 1, Len(s)) = s

\* which request it is: its method, URL and headers (its body is left to C13)
RequestLine(r) == [method |-> r.method, url |-> r.url, header |-> r.header]

RequestLines(rs) == [k \in 1..Len(rs) |-> RequestLine(rs[k])]

\* C15: after every step the history of each match is the sequence of the requests
\* it served, in the order they were served, and NumberOfCalls is its length; the
\* history only grows, and a request the match did not serve is not added to it.
C15_HistoryInvariant ==
  [][\A i \in 1..Len(matches') :
       /\ RequestLines(matches'[i].matches) = RequestLines(received'[i])
       /\ NumberOfCalls(matches'[i]) = Len(received'[i])
       /\ i <= Len(matches) =>
            /\ IsPrefix(matches[i].matches, matches'[i].matches)
            /\ (IsDispatch /\ last'.servedBy # i) => matches'[i].matches = matches[i].matches
            /\ (IsDispatch /\ last'.servedBy = i) =>
                 /\ Len(matches'[i].matches) = Len(matches[i].matches) + 1
                 /\ RequestLine(matches'[i].matches[Len(matches'[i].matches)])
                      = RequestLine(last'.r)]_vars

\* the first match served one request and ran out, the second served the request the
\* first does not match and then the one the first could no longer serve
C15_Witness ==
  /\ Len(matches) = 2
  /\ Len(registered[1]) = 1
  /\ matches[1].matches = <<GetUsersRequest>>
  /\ matches[2].matches = <<PostOtherRequest, GetUsersRequest>>
  /\ NumberOfCalls(matches[2]) = 2

-----------------------------------------------------------------------------
\* What the client receives from a match

-----------------------------------------------------------------------------
\* reg.misses

RECURSIVE MissesBefore(_, _, _, _)
\* the misses the matches i..n-1 leave for a request none of them serves; r is the
\* request as the earlier evaluations left it
MissesBefore(ms, i, n, r) ==
  IF i >= n THEN <<>>
  ELSE LET res == doesRegisteredMatchMatchIncomingRequest(ms[i], r)
       IN (IF ~res.doesMatch THEN res.misses ELSE <<ExhaustionMiss(ms[i])>>)
            \o MissesBefore(ms, i + 1, n, res.r)

\* C17: after every request reg.misses holds the misses of that request and no
\* other, in the order of the matches: those of the matches before the one that
\* served it, or of all the matches if none did.
C17_TransientMissLog ==
  [][IsDispatch =>
       misses' = MissesBefore(matches, 1,
                              IF last'.servedBy = 0 THEN Len(matches) + 1 ELSE last'.servedBy,
                              last'.r)]_vars

\* after an earlier request had failed, a request was served by the second match and
\* reg.misses holds the two misses of the first match for it
C17_Witness ==
  /\ last.op = "dispatch"
  /\ last.servedBy = 2
  /\ t.HasFailed
  /\ Len(misses) = 2
  /\ misses[1] = newMiss(matches[1], pathDoesNotMatch)
  /\ misses[2] = newMiss(matches[1], methodDoesNotMatch)

-----------------------------------------------------------------------------
\* The builders of Request and Response. A Request or Response is a struct passed by
\* value whose headers field is a Go map, that is a pointer: objects.vals[k].val holds
\* the fields of the k-th value of the test and objects.vals[k].ref the map its headers
\* field points to. newRequestWithName and newResponseWithName make a map; a builder
\* copies the struct, the pointer included.

MaxValues == 4

JSONHeader == <<"Content-Type", "application/json">>

AcceptFoo == <<"Accept", "foo">>

\* Request.WithJSONHeader, Response.WithJSONHeader: the value returned
WithJSONHeader(r) == WithHeader(r, JSONHeader[1], JSONHeader[2])

\* the k-th value as the program reads it: its fields, and the map its headers point to
Deref(st, k) == [st.vals[k].val EXCEPT !.headers = st.maps[st.vals[k].ref]]

IsRequestValue(k) == "url" \in DOMAIN objects.vals[k].val

IsResponseValue(k) == "statusCode" \in DOMAIN objects.vals[k].val

\* make(map[string]string) and the struct literal of newRequestWithName / newResponseWithName
Allocate(val) ==
  /\ Len(objects.vals) < MaxValues
  /\ objects' = [maps |-> Append(objects.maps, {}),
                 vals |-> Append(objects.vals, [val |-> val, ref |-> Len(objects.maps) + 1])]
  /\ UNCHANGED <<matches, misses, t, nameRequestCounter, nameResponseCounter,
                 nameCustomResponseCounter, last, nRequests, nChecks, registered, served,
                 received, handlers, probe, adders, other>>

\* a builder that assigns a field of its receiver, which is a copy: the value returned
\* is a new struct with the receiver's map
AssignField(k, result) ==
  /\ Len(objects.vals) < MaxValues
  /\ objects' = [objects EXCEPT !.vals = Append(@, [val |-> result, ref |-> objects.vals[k].ref])]
  /\ UNCHANGED <<matches, misses, t, nameRequestCounter, nameResponseCounter,
                 nameCustomResponseCounter, last, nRequests, nChecks, registered, served,
                 received, handlers, probe, adders, other>>

\* a builder that does r.headers[k] = v: the write goes to the map the receiver's
\* headers field points to, and the value returned is a new struct with that map
AssignHeaders(k, result) ==
  /\ Len(objects.vals) < MaxValues
  /\ objects' = [maps |-> [objects.maps EXCEPT ![objects.vals[k].ref] = result.headers],
                 vals |-> Append(objects.vals, [val |-> result, ref |-> objects.vals[k].ref])]
  /\ UNCHANGED <<matches, misses, t, nameRequestCounter, nameResponseCounter,
                 nameCustomResponseCounter, last, nRequests, nChecks, registered, served,
                 received, handlers, probe, adders, other>>

CallNewRequest == Allocate(NewRequest)

CallNewResponse == Allocate(NewResponse)

CallWithName(k) == IsRequestValue(k) /\ AssignField(k, WithName(Deref(objects, k), Str("n")))

CallWithURL(k) == IsRequestValue(k) /\ AssignField(k, WithURL(Deref(objects, k), PathUsers))

CallWithMethod(k) == IsRequestValue(k) /\ AssignField(k, WithMethod(Deref(objects, k), "GET"))

CallWithBody(k) == IsRequestValue(k) /\ AssignField(k, WithBody(Deref(objects, k), Bytes(<<"b">>)))

CallWithHeader(k) ==
  IsRequestValue(k) /\ AssignHeaders(k, WithHeader(Deref(objects, k), AcceptFoo[1], AcceptFoo[2]))

CallWithJSONHeader(k) == IsRequestValue(k) /\ AssignHeaders(k, WithJSONHeader(Deref(objects, k)))

CallWithHeaders(k) ==
  IsRequestValue(k) /\ AssignHeaders(k, WithHeaders(Deref(objects, k), {AcceptFoo, JSONHeader}))

CallWithStatus(k) == IsResponseValue(k) /\ AssignField(k, WithStatus(Deref(objects, k), 201))

CallResponseWithBody(k) ==
  IsResponseValue(k) /\ AssignField(k, ResponseWithBody(Deref(objects, k), Bytes(<<"x">>)))

CallResponseWithHeader(k) ==
  IsResponseValue(k)
  /\ AssignHeaders(k, ResponseWithHeader(Deref(objects, k), JSONHeader[1], JSONHeader[2]))

NextBuilders ==
  \/ CallNewRequest
  \/ CallNewResponse
  \/ \E k \in 1..Len(objects.vals) : CallWithName(k)
  \/ \E k \in 1..Len(objects.vals) : CallWithURL(k)
  \/ \E k \in 1..Len(objects.vals) : CallWithMethod(k)
  \/ \E k \in 1..Len(objects.vals) : CallWithBody(k)
  \/ \E k \in 1..Len(objects.vals) : CallWithHeader(k)
  \/ \E k \in 1..Len(objects.vals) : CallWithJSONHeader(k)
  \/ \E k \in 1..Len(objects.vals) : CallWithHeaders(k)
  \/ \E k \in 1..Len(objects.vals) : CallWithStatus(k)
  \/ \E k \in 1..Len(objects.vals) : CallResponseWithBody(k)
  \/ \E k \in 1..Len(objects.vals) : CallResponseWithHeader(k)

SpecBuilders == Init /\ [][NextBuilders]_vars

\* C18: value semantics of the builders: a builder call returns a new value and leaves
\* every value that exists, its receiver and the package-level DefaultRequest and
\* OkResponse among them, as it was, headers included.
C18_ValueSemantics ==
  [][\A k \in 1..Len(objects.vals) : Deref(objects', k) = Deref(objects, k)]_vars

\* DefaultRequest.WithHeader("Accept", "foo") was called: DefaultRequest now has the header
\* and is no longer equal to NewRequest()
C18_Witness ==
  /\ Len(objects.vals) = 3
  /\ objects.vals[3].ref = 1
  /\ Deref(objects, 1).headers = {AcceptFoo}
  /\ Deref(objects, 1).name = DefaultRequest.name
  /\ ~Equal(Deref(objects, 1), NewRequest)

-----------------------------------------------------------------------------
\* C19: the list of matches only grows, at its end: a call of an Add method appends
\* exactly one match, no other operation (a request, CheckAllResponsesAreConsumed,
\* GetMatchesForRequest, GetMatchesForURL, GetMatchesURLAndMethod) changes its length,
\* and the match at each position keeps its request, its kind and the responses it was
\* registered with: none is removed, replaced or moved.
C19_AppendOnly ==
  [][/\ Len(matches') = (IF last'.op = "add" THEN Len(matches) + 1 ELSE Len(matches))
     /\ \A i \in 1..Len(matches) :
          /\ i <= Len(matches')
          /\ matches'[i].request = matches[i].request
          /\ matches'[i].kind = matches[i].kind
          /\ registered'[i] = registered[i]]_vars

\* a second match was added after the first had served two requests and after a check:
\* the first is still first
C19_Witness ==
  /\ last.op = "add"
  /\ Len(matches) = 2
  /\ nChecks = 1
  /\ NumberOfCalls(matches[1]) >= 2
  /\ matches[1].request.name = defaultName("mock request", 1)
  /\ matches[2].request.name = defaultName("mock request", 2)

-----------------------------------------------------------------------------
\* C20: CheckAllResponsesAreConsumed reports every match registered with a response
\* that is never consumed as having that response unused, and fails the TestingT,
\* however many requests the match has served.
C20_InfiniteAlwaysReported ==
  [][IsCheck =>
       \A i \in 1..Len(matches) :
         matches[i].kind = "infinite" =>
           /\ t'.HasFailed
           /\ \E k \in (Len(t.Messages) + 1)..Len(t'.Messages) :
                t'.Messages[k] = [format |-> "request %v has %v as unused response",
                                  args |-> <<matches[i].request.name, registered[i][1].name>>]]_vars

\* a check after a match that never runs out had served every one of four requests:
\* no request failed, and the check reported the match
C20_Witness ==
  /\ last.op = "check"
  /\ \E i \in 1..Len(matches) :
       /\ matches[i].kind = "infinite"
       /\ NumberOfCalls(matches[i]) = MaxRequests
       /\ t.HasFailed
       /\ t.Messages = <<[format |-> "request %v has %v as unused response",
                          args |-> <<matches[i].request.name, registered[i][1].name>>]>>

-----------------------------------------------------------------------------
\* C21: CheckAllResponsesAreConsumed on a registry whose one match is finite and has two
\* unused responses sends exactly one message, which names the request of the match and
\* one of the two responses, and leaves the number of calls and the history of every
\* match as they were.
C21_ScenarioC ==
  [][IsCheck =>
       /\ \A i \in 1..Len(matches) :
            /\ NumberOfCalls(matches'[i]) = NumberOfCalls(matches[i])
            /\ matches'[i].matches = matches[i].matches
       /\ (/\ Len(matches) = 1
           /\ matches[1].kind = "consumable"
           /\ Len(matches[1].responses) = 2)
          => /\ Len(t'.Messages) = Len(t.Messages) + 1
             /\ t'.Messages[Len(t'.Messages)].format = "request %v has %v as unused response"
             /\ t'.Messages[Len(t'.Messages)].args[1] = matches[1].request.name
             /\ \E k \in 1..2 :
                  t'.Messages[Len(t'.Messages)].args[2] = matches[1].responses[k].name]_vars

\* the check of a registry whose only match had served one request and had two of its
\* three responses left: one message, and still one call
C21_Witness ==
  /\ last.op = "check"
  /\ Len(matches) = 1
  /\ Len(registered[1]) = 3
  /\ Len(served[1]) = 1
  /\ NumberOfCalls(matches[1]) = 1
  /\ Len(t.Messages) = 1
  /\ t.Messages[1].args = <<matches[1].request.name, registered[1][2].name>>

-----------------------------------------------------------------------------
\* C22: the answer to a request that no match served carries the header
\* Content-Type: application/json: the header is among those committed with the status 500.
C22_MissContentType ==
  (last.op = "dispatch" /\ last.servedBy = 0) =>
    /\ last.w.status = 500
    /\ <<"Content-Type", "application/json">> \in last.w.sent

\* a request no match served: the status 500 was committed with no header, and the
\* Content-Type was set on the header map afterwards
C22_Witness ==
  /\ last.op = "dispatch"
  /\ last.servedBy = 0
  /\ last.w.wroteHeader
  /\ last.w.status = 500
  /\ last.w.sent = {}
  /\ last.w.header = {<<"Content-Type", "application/json">>}
  /\ Len(last.w.body) > 0

-----------------------------------------------------------------------------
\* C23: when the loop of the handler comes to a match whose pattern matches the request
\* and which has no response left, it records exactly one miss for that match, with the
\* reason "the route matches but there was no response available", records nothing in
\* the history of the match, does not serve the request with it and goes on.
C23_ExhaustionIsSoft ==
  [][IsDispatch =>
       \A i \in 1..Len(matches) :
         (/\ PatternMatches(matches[i], last'.r)
          /\ ~HasUnconsumed(matches[i])
          /\ \A j \in 1..(i - 1) : j \notin Eligible(matches, last'.r))
         => /\ Cardinality({k \in 1..Len(misses') : misses'[k].Request = matches[i].request}) = 1
            /\ \E k \in 1..Len(misses') : misses'[k] = ExhaustionMiss(matches[i])
            /\ matches'[i] = matches[i]
            /\ last'.servedBy # i]_vars

\* two matches registered for the body "b" had lost their response to a check; a request
\* with the body "b" left the miss of the first and none for the second
C23_Witness ==
  /\ last.op = "dispatch"
  /\ last.servedBy = 0
  /\ nRequests = 1
  /\ Len(matches) = 2
  /\ \A i \in 1..2 : PatternMatches(matches[i], last.r) /\ ~HasUnconsumed(matches[i])
  /\ misses = <<ExhaustionMiss(matches[1])>>

-----------------------------------------------------------------------------
\* Add methods called from several goroutines while the server answers requests.
\* Goroutine g calls AddRequestWithResponse with a request and a response it has named,
\* so that the name functions are not called. The statement
\* reg.matches = append(reg.matches, m) is a read of the slice and a write of the slice
\* read with m appended; the slice holds pointers, so a match that a write drops from
\* reg.matches keeps its state (adders[g].obj) and has it when a later write brings it
\* back. A handler reads reg.matches once, when its range begins.

\* the name goroutine g gave to its request
AdderName(g) == <<"route", g>>

\* the match goroutine g registers
AdderMatch(g) ==
  newConsumableResponsesMatch(WithName(GetUsers, AdderName(g)),
                              <<ResponseWithName(ResponseA, <<"answer", g>>)>>)

\* the match named name as it is now, in reg.matches or out of it
Live(name) ==
  LET at == {k \in 1..Len(matches) : matches[k].request.name = name}
  IN IF at # {}
     THEN [m |-> matches[Min(at)], served |-> served[Min(at)], received |-> received[Min(at)]]
     ELSE adders[CHOOSE g \in DOMAIN adders : AdderName(g) = name].obj

InitReg ==
  /\ matches = <<>>
  /\ misses = <<>>
  /\ t = NewMockTestingT
  /\ nameRequestCounter = 1
  /\ nameResponseCounter = 1
  /\ nameCustomResponseCounter = 1
  /\ last = NoLast
  /\ nRequests = 0
  /\ nChecks = 0
  /\ registered = <<>>
  /\ served = <<>>
  /\ received = <<>>
  /\ handlers = <<>>
  /\ probe = NoProbe
  /\ objects = PackageObjects
  /\ adders = [g \in 1..MaxConcurrent |->
                 [pc |-> "idle", seen |-> <<>>,
                  obj |-> [m |-> AdderMatch(g), served |-> <<>>, received |-> <<>>]]]
  /\ other = NewNames

\* append, first half: the read of reg.matches
AdderRead(g) ==
  /\ adders[g].pc = "idle"
  /\ adders' = [adders EXCEPT ![g] =
                  [@ EXCEPT !.pc = "read",
                            !.seen = [k \in 1..Len(matches) |-> matches[k].request.name]]]
  /\ UNCHANGED <<matches, misses, t, nameRequestCounter, nameResponseCounter,
                 nameCustomResponseCounter, last, nRequests, nChecks, registered, served,
                 received, handlers, probe, objects, other>>

\* append, second half: reg.matches = the slice read with the new match appended
AdderWrite(g) ==
  /\ adders[g].pc = "read"
  /\ LET names == Append(adders[g].seen, AdderName(g))
     IN /\ matches' = [k \in 1..Len(names) |-> Live(names[k]).m]
        /\ served' = [k \in 1..Len(names) |-> Live(names[k]).served]
        /\ received' = [k \in 1..Len(names) |-> Live(names[k]).received]
        /\ registered' = [k \in 1..Len(names) |->
                            <<ResponseWithName(ResponseA, <<"answer", names[k][2]>>)>>]
  /\ adders' = [j \in DOMAIN adders |->
                  [pc |-> IF j = g THEN "done" ELSE adders[j].pc,
                   seen |-> adders[j].seen,
                   obj |-> Live(AdderName(j))]]
  /\ last' = [NoLast EXCEPT !.op = "add"]
  /\ UNCHANGED <<misses, t, nameRequestCounter, nameResponseCounter,
                 nameCustomResponseCounter, nRequests, nChecks, handlers, probe, objects, other>>

NextReg ==
  \/ \E g \in 1..MaxConcurrent : AdderRead(g)
  \/ \E g \in 1..MaxConcurrent : AdderWrite(g)
  \/ Dispatch(GetUsersRequest)

SpecReg == InitReg /\ [][NextReg]_vars

\* C24: when every goroutine that called an Add method has returned, reg.matches holds
\* the match of each of them, once: as many matches as calls, none lost and none twice.
C24_ExclusiveRegistration ==
  (\A g \in DOMAIN adders : adders[g].pc = "done") =>
    /\ Len(matches) = Len(adders)
    /\ \A g \in DOMAIN adders :
         Cardinality({k \in 1..Len(matches) : matches[k].request.name = AdderName(g)}) = 1

\* two goroutines have returned from their Add call and reg.matches holds one match:
\* the other one, which had served a request, is lost
C24_Witness ==
  /\ Len(adders) >= 2
  /\ \A g \in DOMAIN adders : adders[g].pc = "done"
  /\ Len(matches) = 1
  /\ \E g \in DOMAIN adders :
       /\ \A k \in 1..Len(matches) : matches[k].request.name # AdderName(g)
       /\ NumberOfCalls(adders[g].obj.m) = 1

-----------------------------------------------------------------------------
\* C25: a request that is served leaves the TestingT untouched, neither Fail nor Errorf
\* is called, however many matches before the one that served it did not match or had
\* run out; the TestingT changes only when a request is served by no match and when
\* CheckAllResponsesAreConsumed is called.
C25_SoftMissesAreSilent ==
  [][/\ (IsDispatch /\ last'.servedBy # 0) => t' = t
     /\ t' # t => ((IsDispatch /\ last'.servedBy = 0) \/ IsCheck)]_vars

\* the second request found the first match out of responses and was served by the
\* second: one miss in reg.misses, nothing sent to the TestingT
C25_Witness ==
  /\ last.op = "dispatch"
  /\ nRequests = 2
  /\ last.servedBy = 2
  /\ misses = <<ExhaustionMiss(matches[1])>>
  /\ t = NewMockTestingT

-----------------------------------------------------------------------------
RECURSIVE ReceivedBy(_, _)
\* the requests served by the matches from index i on whose request equals p, names
\* apart, match after match
ReceivedBy(p, i) ==
  IF i > Len(matches) THEN <<>>
  ELSE (IF Equal(matches[i].request, p) THEN received[i] ELSE <<>>) \o ReceivedBy(p, i + 1)

\* C26: GetMatchesForRequest(p) returns every request that was served by a match
\* registered with a request equal to p, names apart, and the empty list when there is
\* no such match. (A later match with that request serves only once the earlier ones
\* cannot, so match after match is the order in which the requests were served.)
C26_GetMatchesForRequest ==
  [][last'.op = "get" => last'.returned = ReceivedBy(GetUsers, 1)]_vars

\* GET /u was registered twice; the first match served one request, the second two, and
\* GetMatchesForRequest returned one request
C26_Witness ==
  /\ last.op = "get"
  /\ Len(matches) = 2
  /\ \A i \in 1..2 : Equal(matches[i].request, GetUsers)
  /\ Len(received[1]) = 1
  /\ Len(received[2]) = 2
  /\ last.returned = received[1]

-----------------------------------------------------------------------------
\* C27: the function of a CustomResponse is called once for each request that its
\* match serves, with that request, and is not called for a request that its match did
\* not serve, nor by CheckAllResponsesAreConsumed.
C27_CustomResponseAtRender ==
  [][/\ IsDispatch =>
          IF last'.servedBy # 0 /\ last'.response.kind = "CustomResponse"
          THEN /\ Len(last'.w.calls) = 1
               /\ RequestLine(last'.w.calls[1]) = RequestLine(last'.r)
          ELSE last'.w.calls = <<>>
     /\ IsCheck => (last'.w.calls = <<>> /\ last'.w = NewResponseWriter)]_vars

\* a request GET /u served by the match registered with a CustomResponse, after the
\* first match had run out: the function was called once, with this request
C27_Witness ==
  /\ last.op = "dispatch"
  /\ last.servedBy = 2
  /\ last.response.kind = "CustomResponse"
  /\ misses = <<ExhaustionMiss(matches[1])>>
  /\ last.w.calls = <<GetUsersRequest>>
  /\ last.w.status = 200

-----------------------------------------------------------------------------
\* Two registries, each made by NewRegistry: the one of the other specifications and a
\* second one, of which only the name functions and the names given are kept.

Mine == WithName(GetUsers, Str("mine"))

\* AddRequestWithResponse on the second registry
OtherAddRequestWithResponse(request, response) ==
  LET rq == ifNeededSetDefaultNameToRequest(request, other.nameRequestCounter)
      rs == ifNeededSetDefaultNameToMockResponse(response, other.nameResponseCounter,
                                                 other.nameCustomResponseCounter)
  IN /\ Len(other.requests) < MaxMatches
     /\ other' = [nameRequestCounter |-> rq.counter,
                  nameResponseCounter |-> rs.counter,
                  nameCustomResponseCounter |-> rs.customCounter,
                  requests |-> Append(other.requests, rq.request.name)]
     /\ UNCHANGED <<matches, misses, t, nameRequestCounter, nameResponseCounter,
                    nameCustomResponseCounter, last, nRequests, nChecks, registered, served,
                    received, handlers, probe, objects, adders>>

NextNames ==
  \/ AddRequestWithResponses(GetUsers, <<ResponseA>>)
  \/ AddRequestWithResponses(Mine, <<ResponseWithName(ResponseB, Str("answer"))>>)
  \/ AddInfiniteResponse(NewCustomResponse)
  \/ OtherAddRequestWithResponse(GetUsers, ResponseA)
  \/ OtherAddRequestWithResponse(Mine, NewCustomResponse)
  \/ Dispatch(GetUsersRequest)
  \/ CheckAllResponsesAreConsumed

SpecNames == Init /\ [][NextNames]_vars

\* C28: in each registry the k-th request registered without a name is named
\* "mock request #k", whatever was registered in the other registry, and a request
\* registered with a name keeps it and does not advance the counter.
C28_NamesPerRegistry ==
  LET default(names) == SelectSeq(names, LAMBDA n : n[1] = "mock request")
      given(names) == SelectSeq(names, LAMBDA n : n[1] # "mock request")
      ok(names, counter) ==
        /\ \A k \in 1..Len(default(names)) : default(names)[k] = <<"mock request", k>>
        /\ \A k \in 1..Len(given(names)) : given(names)[k] = Mine.name
        /\ counter = Len(default(names)) + 1
  IN /\ ok([i \in 1..Len(matches) |-> matches[i].request.name], nameRequestCounter)
     /\ ok(other.requests, other.nameRequestCounter)

\* the second registry has named two requests, this one has registered a named request
\* and then its first request without a name, "mock request #1"
C28_Witness ==
  /\ other.requests = <<<<"mock request", 1>>, <<"mock request", 2>>>>
  /\ Len(matches) = 2
  /\ matches[1].request.name = Mine.name
  /\ matches[2].request.name = <<"mock request", 1>>
  /\ nameRequestCounter = 2

-----------------------------------------------------------------------------
\* C29: when a match serves a request, the matches after it are not consulted and only
\* the match that served changes: it loses exactly one response, its first (none if it
\* never runs out), and its history gains exactly one entry, this request; the
\* responses and the history of every other match stay as they were.
C29_DispatchFrame ==
  [][(IsDispatch /\ last'.servedBy # 0) =>
       LET w == last'.servedBy
       IN /\ Len(matches') = Len(matches)
          /\ \A i \in 1..Len(matches) : i # w => matches'[i] = matches[i]
          /\ matches'[w].responses =
               (IF matches[w].kind = "infinite" THEN matches[w].responses
                ELSE Tail(matches[w].responses))
          /\ Len(matches'[w].matches) = Len(matches[w].matches) + 1
          /\ SubSeq(matches'[w].matches, 1, Len(matches[w].matches)) = matches[w].matches
          /\ RequestLine(matches'[w].matches[Len(matches'[w].matches)]) = RequestLine(last'.r)
          /\ matches'[w].request = matches[w].request
          /\ \A k \in 1..Len(misses') :
               \A j \in (w + 1)..Len(matches) : misses'[k].Request # matches[j].request]_vars

\* the first of two matches served a request, its second: it has one response left and
\* two entries in its history, the match after it has all its responses and no entry
C29_Witness ==
  /\ last.op = "dispatch"
  /\ last.servedBy = 1
  /\ nChecks = 0
  /\ Len(matches) = 2
  /\ Len(registered[1]) = 3
  /\ Len(matches[1].responses) = 1
  /\ NumberOfCalls(matches[1]) = 2
  /\ matches[2].kind = "consumable"
  /\ matches[2].responses = registered[2]
  /\ NumberOfCalls(matches[2]) = 0
  /\ misses = <<>>

-----------------------------------------------------------------------------
\* C30: with several requests handled at once, the body of the 500 answer to a request
\* that no match served is the list of the misses of that request, all of them and in
\* the order of the matches, without a miss of another request and without a miss
\* missing because another handler emptied reg.misses.
C30_MissLogIsolation ==
  \A h \in DOMAIN handlers :
    (handlers[h].pc = "done" /\ handlers[h].servedBy = 0) =>
      handlers[h].w.body = Why(ExpectedMisses(matches, 1, handlers[h].r0))

\* two requests POST /o were handled at once: each left its two misses in reg.misses
\* before either was answered, and the answer to one lists all four
C30_Witness ==
  /\ Len(misses) = 4
  /\ \E h \in DOMAIN handlers :
       /\ handlers[h].pc = "done"
       /\ handlers[h].servedBy = 0
       /\ handlers[h].r0 = PostOtherRequest
       /\ handlers[h].w.status = 500
       /\ handlers[h].w.body = Why(misses)
       /\ Len(ExpectedMisses(matches, 1, handlers[h].r0)) = 2

-----------------------------------------------------------------------------
\* C31: after a request that no match served, reg.misses, and so the body of the 500
\* answer, holds at least one miss for every match of the registry, also for a match
\* that rejected the request because of the body alone.
C31_DiagnosticsCoverAll ==
  (last.op = "dispatch" /\ last.servedBy = 0) =>
    \A i \in 1..Len(matches) :
      \E k \in 1..Len(misses) : misses[k].Request = matches[i].request

\* the only match requires the body "a"; a request with the body "b" was answered 500
\* with an empty list of misses
C31_Witness ==
  /\ last.op = "dispatch"
  /\ last.servedBy = 0
  /\ last.r = PostOtherRequest
  /\ Len(matches) = 1
  /\ matches[1].request.body = Bytes(<<"a">>)
  /\ HasUnconsumed(matches[1])
  /\ misses = <<>>
  /\ last.w.status = 500
  /\ last.w.body = Why(<<>>)

-----------------------------------------------------------------------------
\* C32: a match that requires a body accepts a request with that body whichever
\* matches were evaluated before it: when every earlier match rejects the request, the
\* match serves it, or leaves its exhaustion miss if it has no response left.
C32_BodyMatchIsOrderIndependent ==
  [][IsDispatch =>
       \A j \in 1..Len(matches) :
         (/\ LenBytes(matches[j].request.body) > 0
          /\ matches[j].request.body.bytes = last'.r.body
          /\ \A i \in 1..(j - 1) : ~PatternMatches(matches[i], last'.r))
         => IF HasUnconsumed(matches[j])
            THEN last'.servedBy = j
            ELSE \E k \in 1..Len(misses') : misses'[k] = ExhaustionMiss(matches[j])]_vars

\* the first match requires the body "a", the second the body "b"; the first request,
\* with the body "b", was rejected by both
C32_Witness ==
  /\ last.op = "dispatch"
  /\ nRequests = 1
  /\ nChecks = 0
  /\ last.r = PostOtherRequest
  /\ Len(matches) = 2
  /\ matches[1].request.body = Bytes(<<"a">>)
  /\ matches[2].request.body = Bytes(<<"b">>)
  /\ matches[2].responses = registered[2]
  /\ last.servedBy = 0
  /\ misses = <<>>

-----------------------------------------------------------------------------
-----------------------------------------------------------------------------
\* C34: a request that ends with the 500 answer takes no response and adds no request
\* to a history: every match is as it was before the request, and so are the name
\* counters; only reg.misses and the TestingT change.
C34_FatalPathFrame ==
  [][(IsDispatch /\ last'.servedBy = 0) =>
       /\ matches' = matches
       /\ served' = served
       /\ received' = received
       /\ registered' = registered
       /\ nameRequestCounter' = nameRequestCounter
       /\ nameResponseCounter' = nameResponseCounter
       /\ nameCustomResponseCounter' = nameCustomResponseCounter
       /\ t' # t]_vars

\* POST /o was rejected by two matches for GET /u, the first of which had served one
\* request: four misses, and the first match still has its two other responses
C34_Witness ==
  /\ last.op = "dispatch"
  /\ last.servedBy = 0
  /\ last.r = PostOtherRequest
  /\ Len(matches) = 2
  /\ Len(misses) = 4
  /\ Len(registered[1]) = 3
  /\ Len(matches[1].responses) = 2
  /\ NumberOfCalls(matches[1]) = 1
  /\ matches[2].responses = registered[2]
  /\ nChecks = 0

-----------------------------------------------------------------------------
\* C35: the handler GetServer returns ranges over reg.matches as it is when the request
\* arrives. The server is there from the initial state, so every match is registered
\* after GetServer was called, some after requests were already answered: the match
\* registered last is at the end of the list for every later request, it serves the
\* request, with its first response, when it can and no match before it can, and an
\* earlier match that can serve goes first.
C35_LateRegistration ==
  [][IsDispatch =>
       LET n == Len(matches)
           e == Eligible(matches, last'.r)
       IN (n > 0 /\ n \in e) =>
            /\ last'.servedBy = Min(e)
            /\ (e = {n}) => (/\ last'.servedBy = n
                             /\ last'.response = NextResponse(matches[n]).response
                             /\ NumberOfCalls(matches'[n]) = NumberOfCalls(matches[n]) + 1)]_vars

\* a request GET /u was answered 500 by the server of the empty registry; a match was
\* registered afterwards and served the next request
C35_Witness ==
  /\ last.op = "dispatch"
  /\ nRequests = 2
  /\ nChecks = 0
  /\ Len(matches) = 1
  /\ last.servedBy = 1
  /\ NumberOfCalls(matches[1]) = 1
  /\ t.HasFailed
  /\ Len(t.Messages) = 1
  /\ t.Messages[1].args = <<DumpRequest(GetUsersRequest)>>

-----------------------------------------------------------------------------
\* C36: the handler records the request in the history of the match that serves it
\* before it writes any part of the response: whenever a response of a match has been
\* written to a client, the request of that client is in the history of the match, and
\* the history has an entry for each request answered so far.
C36_ArchiveBeforeReply ==
  LET answered == {h \in DOMAIN handlers :
                     handlers[h].pc = "done" /\ handlers[h].servedBy # 0}
  IN /\ \A h \in answered :
          \E k \in 1..NumberOfCalls(matches[handlers[h].servedBy]) :
            RequestLine(matches[handlers[h].servedBy].matches[k]) = RequestLine(handlers[h].r0)
     /\ \A i \in 1..Len(matches) :
          Cardinality({h \in answered : handlers[h].servedBy = i}) <= NumberOfCalls(matches[i])

\* both clients have their response, written by the match, and the history of the
\* match holds one request: the second handler read the empty history before the
\* first stored its entry, and stored its own over it
C36_Witness ==
  /\ \A h \in DOMAIN handlers :
       /\ handlers[h].pc = "done"
       /\ handlers[h].servedBy = 1
       /\ handlers[h].seen = <<>>
       /\ handlers[h].w.calls = <<>>
  /\ handlers[1].response # handlers[2].response
  /\ NumberOfCalls(matches[1]) = 1
  /\ matches[1].responses = <<>>

====
